---- MODULE Spec2Model ----
(***************************************************************************)
(* Model of the LiST-ML host-metrics collector.                            *)
(*                                                                         *)
(*   sampler.cpp : sample_cpu_usage(), CPU utilisation from two counter    *)
(*                 snapshots, in 64-bit unsigned and double arithmetic.    *)
(*   main.cpp    : main() (producer loop) and write() (consumer thread),   *)
(*                 joined by a Samplequeue and a Writer.                   *)
(*                                                                         *)
(* queue.hpp, writer.hpp, sampler.hpp and proc_reader.hpp are included by  *)
(* the sources but are not part of them; the Samplequeue, the Writer and   *)
(* sample_usage() follow the design document.                              *)
(***************************************************************************)
EXTENDS Integers, Sequences, FiniteSets, TLC

\* ------------------------------------------------------------------------
\* Bounds of the model
\* ------------------------------------------------------------------------
\* counter values read from the counter source: 0..MaxCount, and the large
\* values of BigVals
MaxCount == 1
\* samples the producer creates before the model stops it
MaxSamples == 4
\* close() calls made on a Samplequeue before the model stops them
MaxCloses == 2
\* capacity of the Samplequeue (a fixed constant of the design, scaled down)
QueueCapacity == 2

\* ------------------------------------------------------------------------
\* uint64_t and double
\*
\* A natural number is kept as five 16-bit limbs, least significant first,
\* so that sums of seven 64-bit values are exact; a uint64_t is a number
\* whose fifth limb is 0, and uint64_t arithmetic is reduced modulo 2^64.
\* ------------------------------------------------------------------------
Base == 2^16

Nat5(n) == <<n, 0, 0, 0, 0>>

Zero == Nat5(0)

Carry(a, b, c) == (a + b + c) \div Base

Limb(a, b, c) == (a + b + c) % Base

\* exact sum of two numbers (the result is below 2^80 for all uses)
WAdd(a, b) ==
    LET c1 == Carry(a[1], b[1], 0)
        c2 == Carry(a[2], b[2], c1)
        c3 == Carry(a[3], b[3], c2)
        c4 == Carry(a[4], b[4], c3)
    IN  << Limb(a[1], b[1], 0), Limb(a[2], b[2], c1), Limb(a[3], b[3], c2),
           Limb(a[4], b[4], c3), Limb(a[5], b[5], c4) >>

WLess(a, b) ==
    \E i \in 1..5 : a[i] < b[i] /\ \A j \in (i+1)..5 : a[j] = b[j]

WLeq(a, b) == a = b \/ WLess(a, b)

\* reduction modulo 2^64
Trunc64(w) == [w EXCEPT ![5] = 0]

\* 2^64 - 1 - b
Not64(b) == << Base - 1 - b[1], Base - 1 - b[2], Base - 1 - b[3], Base - 1 - b[4], 0 >>

\* uint64_t a + b
U64Add(a, b) == Trunc64(WAdd(a, b))

\* a subtraction that gives 0 instead of wrapping when b > a
U64Sub_saturating(a, b) ==
    IF WLess(a, b) THEN Zero ELSE Trunc64(WAdd(WAdd(a, Not64(b)), Nat5(1)))

\* uint64_t a - b: wraps modulo 2^64 when b > a
U64Sub(a, b) == Trunc64(WAdd(WAdd(a, Not64(b)), Nat5(1)))

BitLen(n) == CHOOSE b \in 0..16 : (b = 0 /\ n = 0) \/ (b > 0 /\ 2^(b-1) <= n /\ n < 2^b)

\* double(x) for a uint64_t x: exact below 2^53, otherwise rounded to 53
\* significant bits, to nearest, ties to even. The result is an integer,
\* possibly 2^64.
ToDouble(x) ==
    IF x[4] < 32
    THEN x
    ELSE LET k    == BitLen(x[4]) - 5
             q    == 2^k
             r    == x[1] % q
             down == [x EXCEPT ![1] = x[1] - r]
             odd  == (x[1] \div q) % 2 = 1
         IN  IF 2 * r > q \/ (2 * r = q /\ odd)
             THEN WAdd(down, Nat5(q))
             ELSE down

\* IEEE-754 n / d of two non-negative doubles that hold integers. A finite
\* quotient is kept as the pair (num, den); its order against 0.0 and 1.0 and
\* against a quotient of the same denominator is the order of the
\* numerators, which rounding of the quotient preserves.
DoubleDiv(n, d) ==
    IF d = Zero
    THEN [kind |-> IF n = Zero THEN "nan" ELSE "inf", num |-> n, den |-> d]
    ELSE [kind |-> "fin", num |-> n, den |-> d]

\* 0.0 <= u /\ u <= 1.0 (false for NaN and for +inf)
InUnitInterval(u) == u.kind = "fin" /\ WLeq(u.num, u.den)

\* u == 0.0
IsZeroDouble(u) == u.kind = "fin" /\ u.num = Zero

\* ------------------------------------------------------------------------
\* State
\* ------------------------------------------------------------------------
VARIABLES
    \* sample_cpu_usage(): position, the two snapshots, the returned value
    spc, cpuatt, cpuatt1, cpu_usage,
    \* main(): position of the producer loop and the sample it holds
    mpc, pdata,
    \* write(): position of the consumer thread and the sample it holds
    cpc, cdata,
    \* the Samplequeue shared by both threads
    samplequeue,
    \* the Writer: stream buffer, records on disk, number of close() calls
    wbuf, log, wcloses,
    \* the process: termination requested, process terminated
    shutdown, exited,
    \* history: samples created by the producer, samples popped by the
    \* consumer, completed push calls
    created, popped, pushes,
    \* the error that ended the process, number of times the log was opened
    failure, wopens,
    \* the last call made on a Samplequeue and what it returned
    qcall

samplerVars == <<spc, cpuatt, cpuatt1, cpu_usage>>

pipelineVars == <<mpc, pdata, cpc, cdata, samplequeue, wbuf, log, wcloses,
                  shutdown, exited, created, popped, pushes>>

\* state added to the pipeline by failures and by the opening of the log
errVars == <<failure, wopens>>

vars == <<spc, cpuatt, cpuatt1, cpu_usage, mpc, pdata, cpc, cdata, samplequeue,
          wbuf, log, wcloses, shutdown, exited, created, popped, pushes,
          failure, wopens, qcall>>

\* ------------------------------------------------------------------------
\* sampler.cpp
\* ------------------------------------------------------------------------
\* cpusnap: the seven time-in-state counters of one read_cpu()
cpusnap(u, n, s, i, w, q, sq) ==
    [user_time |-> u, nice_time |-> n, system_kernel_time |-> s, idle_time |-> i,
     iowait_time |-> w, irq_time |-> q, softirq_time |-> sq]

NoSnap == cpusnap(Zero, Zero, Zero, Zero, Zero, Zero, Zero)

user_delta(a, b) == U64Sub(b.user_time, a.user_time)

nice_delta(a, b) == U64Sub(b.nice_time, a.nice_time)

system_delta(a, b) == U64Sub(b.system_kernel_time, a.system_kernel_time)

idle_delta(a, b) == U64Sub(b.idle_time, a.idle_time)

iowait_delta(a, b) == U64Sub(b.iowait_time, a.iowait_time)

irq_delta(a, b) == U64Sub(b.irq_time, a.irq_time)

softirq_delta(a, b) == U64Sub(b.softirq_time, a.softirq_time)

total_delta(a, b) ==
    U64Add(U64Add(U64Add(U64Add(U64Add(U64Add(user_delta(a, b), nice_delta(a, b)),
        system_delta(a, b)), idle_delta(a, b)), iowait_delta(a, b)),
        irq_delta(a, b)), softirq_delta(a, b))

\* sample_cpu_usage with the operands of the subtraction exchanged
sample_cpu_usage_swapped(a, b) ==
    DoubleDiv(ToDouble(U64Sub(idle_delta(a, b), total_delta(a, b))),
              ToDouble(total_delta(a, b)))

\* the value returned for the snapshots a (first read) and b (second read)
sample_cpu_usage(a, b) ==
    DoubleDiv(ToDouble(U64Sub(total_delta(a, b), idle_delta(a, b))),
              ToDouble(total_delta(a, b)))

\* values the counter source can report
SmallVals == { Nat5(n) : n \in 0..MaxCount }

BigVals == { <<0, 0, 0, 2^15, 0>>, <<Base - 1, Base - 1, Base - 1, Base - 1, 0>> }

\* read_cpu() at the first read
FirstSnaps ==
    { cpusnap(u, Zero, Zero, i, w, Zero, Zero) : u \in SmallVals, i \in SmallVals, w \in SmallVals }

\* read_cpu() at the second read
SecondSnaps ==
    { cpusnap(u, n[1], n[2], i, w, n[3], n[4]) :
        u \in SmallVals \cup BigVals, i \in SmallVals \cup BigVals,
        w \in SmallVals \cup BigVals,
        n \in SmallVals \X SmallVals \X SmallVals \X SmallVals }

NoUsage == [kind |-> "none", num |-> Zero, den |-> Zero]

SamplerInit ==
    /\ spc = "read0"
    /\ cpuatt = NoSnap
    /\ cpuatt1 = NoSnap
    /\ cpu_usage = NoUsage

\* cpuatt = read_cpu();
ReadCpu0 ==
    /\ spc = "read0"
    /\ cpuatt' \in FirstSnaps
    /\ spc' = "sleep"
    /\ UNCHANGED <<cpuatt1, cpu_usage>>

\* this_thread::sleep_for(1s);
Sleep ==
    /\ spc = "sleep"
    /\ spc' = "read1"
    /\ UNCHANGED <<cpuatt, cpuatt1, cpu_usage>>

\* cpuatt1 = read_cpu();
ReadCpu1 ==
    /\ spc = "read1"
    /\ cpuatt1' \in SecondSnaps
    /\ spc' = "compute"
    /\ UNCHANGED <<cpuatt, cpu_usage>>

\* either read_cpu() fails: sample_cpu_usage has no handler, the error
\* leaves it and no value is returned
ReadFail ==
    /\ spc \in {"read0", "read1"}
    /\ spc' = "threw"
    /\ UNCHANGED <<cpuatt, cpuatt1, cpu_usage>>

\* the deltas, total_delta, cpu_usage; return cpu_usage;
Compute ==
    /\ spc = "compute"
    /\ cpu_usage' = sample_cpu_usage(cpuatt, cpuatt1)
    /\ spc' = "returned"
    /\ UNCHANGED <<cpuatt, cpuatt1>>

\* ------------------------------------------------------------------------
\* Samplequeue (queue.hpp), Writer (writer.hpp), sample_usage (sampler.hpp)
\* ------------------------------------------------------------------------
\* a constructed Samplequeue: empty and open
NewQueue == [buf |-> <<>>, closed |-> FALSE]

\* a push that never waits: the queue grows past its capacity
pushBlocks_never(q) == FALSE

\* push waits while the queue is at capacity
pushBlocks(q) == ~q.closed /\ Len(q.buf) >= QueueCapacity

\* a push that is accepted by a closed queue too
push_afterClose(q, s) == [q EXCEPT !.buf = Append(@, s)]

\* push(sample): appended at the back; refused once the queue is closed
push(q, s) == IF q.closed THEN q ELSE [q EXCEPT !.buf = Append(@, s)]

\* what push(sample) reports: QueueClosedError once the queue is closed
pushResult(q) == IF q.closed THEN "QueueClosedError" ELSE "ok"

\* a pop that never waits: an empty open queue gives "no more data"
popBlocks_never(q) == FALSE

\* pop waits while the queue is empty and open
popBlocks(q) == q.buf = <<>> /\ ~q.closed

\* the sample pop() returns: the front of the queue
popFront(q) == Head(q.buf)

\* the queue pop() leaves behind
popRest(q) == [q EXCEPT !.buf = Tail(@)]

\* pop() reports "no more data" when there is nothing left to return
popIsSentinel(q) == q.buf = <<>>

\* a close that drops the buffered samples
close_discard(q) == [buf |-> <<>>, closed |-> TRUE]

\* close(): no further push is accepted; the buffered samples stay
close(q) == [q EXCEPT !.closed = TRUE]

\* writer.write_sample(data): one record appended to the stream
write_sample(buf, data) == Append(buf, data)

\* writer.flush(): the records on disk after the stream is flushed
flush(disk, buf) == disk \o buf

\* sample_usage(): the utilisation u measured at one tick and its capture time
sample_usage(t, u) == [ts |-> t, usage |-> u]

NoSample == [ts |-> 0, usage |-> NoUsage]

\* the error of a failed read of the counter source
CounterReadError == "CounterReadError"

\* the error of a failed write to the log
StorageWriteError == "StorageWriteError"

\* no call has been made on the queue
NoCall == [op |-> "none", ret |-> "none", closes |-> 0]

\* counters of a tick in the pipeline: (user 100, idle 900) and one second later
TickFirst == cpusnap(Nat5(100), Zero, Zero, Nat5(900), Zero, Zero, Zero)

TickSecond ==
    { cpusnap(Nat5(120), Zero, Zero, Nat5(950), Zero, Zero, Zero),
      cpusnap(Nat5(150), Zero, Zero, Nat5(950), Zero, Zero, Zero) }

\* the utilisations a tick of the pipeline can measure: 20/70 and 50/100
TickUsage == { sample_cpu_usage(TickFirst, b) : b \in TickSecond }

\* ------------------------------------------------------------------------
\* main.cpp
\* ------------------------------------------------------------------------
PipelineInit ==
    /\ mpc = "spawn"
    /\ pdata = NoSample
    /\ cpc = "unstarted"
    /\ cdata = NoSample
    /\ samplequeue = NewQueue
    /\ wbuf = <<>>
    /\ log = <<>>
    /\ wcloses = 0
    /\ shutdown = FALSE
    /\ exited = FALSE
    /\ created = <<>>
    /\ popped = <<>>
    /\ pushes = 0
    /\ failure = "none"
    /\ wopens = 0

\* thread t(write, ref(samplequeue));
Spawn ==
    /\ ~exited
    /\ mpc = "spawn"
    /\ mpc' = "sample"
    /\ cpc' = "open"
    /\ UNCHANGED <<pdata, cdata, samplequeue, wbuf, log, wcloses, shutdown, exited,
                   created, popped, pushes>>

\* main, while(true): sample data = sample_usage();
ProducerSample ==
    /\ ~exited
    /\ mpc = "sample"
    /\ Len(created) < MaxSamples
    /\ \E u \in TickUsage :
          LET data == sample_usage(Len(created) + 1, u)
          IN  /\ pdata' = data
              /\ created' = Append(created, data)
    /\ mpc' = "push"
    /\ UNCHANGED <<cpc, cdata, samplequeue, wbuf, log, wcloses, shutdown, exited,
                   popped, pushes>>

\* ProducerPush that does not wait for room: at capacity the sample is
\* dropped and the loop goes on to the next tick
ProducerPush_drop ==
    /\ ~exited
    /\ mpc = "push"
    /\ samplequeue' = IF pushBlocks(samplequeue) THEN samplequeue
                      ELSE push(samplequeue, pdata)
    /\ pushes' = pushes + 1
    /\ mpc' = "sample"
    /\ UNCHANGED <<pdata, cpc, cdata, wbuf, log, wcloses, shutdown, exited,
                   created, popped>>

\* ProducerPush by a main that also appends the sample to the log itself
ProducerPush_write ==
    /\ ~exited
    /\ mpc = "push"
    /\ ~pushBlocks(samplequeue)
    /\ samplequeue' = push(samplequeue, pdata)
    /\ wbuf' = write_sample(wbuf, pdata)
    /\ pushes' = pushes + 1
    /\ mpc' = "sample"
    /\ UNCHANGED <<pdata, cpc, cdata, log, wcloses, shutdown, exited,
                   created, popped>>

\* main, while(true): samplequeue.push(data);
ProducerPush ==
    /\ ~exited
    /\ mpc = "push"
    /\ ~pushBlocks(samplequeue)
    /\ samplequeue' = push(samplequeue, pdata)
    /\ pushes' = pushes + 1
    /\ mpc' = "sample"
    /\ UNCHANGED <<pdata, cpc, cdata, wbuf, log, wcloses, shutdown, exited,
                   created, popped>>

\* write: Writer writer("sample.csv");
ConsumerOpen ==
    /\ ~exited
    /\ cpc = "open"
    /\ wopens' = wopens + 1
    /\ cpc' = "pop"
    /\ UNCHANGED <<mpc, pdata, cdata, samplequeue, wbuf, log, wcloses, shutdown,
                   exited, created, popped, pushes>>

\* ConsumerPop with the popped sample discarded: data keeps its old value
ConsumerPop_discard ==
    /\ ~exited
    /\ cpc = "pop"
    /\ ~popBlocks(samplequeue)
    /\ cdata' = cdata
    /\ samplequeue' = popRest(samplequeue)
    /\ popped' = Append(popped, popFront(samplequeue))
    /\ cpc' = "write"
    /\ UNCHANGED <<mpc, pdata, wbuf, log, wcloses, shutdown, exited, created, pushes>>

\* write, while(true): sample data = q.pop();
ConsumerPop ==
    /\ ~exited
    /\ cpc = "pop"
    /\ ~popBlocks(samplequeue)
    /\ cdata' = popFront(samplequeue)
    /\ samplequeue' = popRest(samplequeue)
    /\ popped' = Append(popped, popFront(samplequeue))
    /\ cpc' = "write"
    /\ UNCHANGED <<mpc, pdata, wbuf, log, wcloses, shutdown, exited, created, pushes>>

\* ConsumerWrite in a loop without the flush: straight back to pop
ConsumerWrite_noflush ==
    /\ ~exited
    /\ cpc = "write"
    /\ wbuf' = write_sample(wbuf, cdata)
    /\ cpc' = "pop"
    /\ UNCHANGED <<mpc, pdata, cdata, samplequeue, log, wcloses, shutdown, exited,
                   created, popped, pushes>>

\* write, while(true): writer.write_sample(data);
ConsumerWrite ==
    /\ ~exited
    /\ cpc = "write"
    /\ wbuf' = write_sample(wbuf, cdata)
    /\ cpc' = "flush"
    /\ UNCHANGED <<mpc, pdata, cdata, samplequeue, log, wcloses, shutdown, exited,
                   created, popped, pushes>>

\* write, while(true): writer.flush();
ConsumerFlush ==
    /\ ~exited
    /\ cpc = "flush"
    /\ log' = flush(log, wbuf)
    /\ wbuf' = <<>>
    /\ cpc' = "pop"
    /\ UNCHANGED <<mpc, pdata, cdata, samplequeue, wcloses, shutdown, exited,
                   created, popped, pushes>>

\* main, sample_usage(): a counter read fails with CounterReadError. Neither
\* the sampler nor main has a handler, so the error leaves main and the
\* process is terminated where it stands (no stack is unwound, nothing is
\* pushed for the tick).
ProducerSampleFail ==
    /\ ~exited
    /\ mpc = "sample"
    /\ failure' = CounterReadError
    /\ exited' = TRUE
    /\ UNCHANGED <<mpc, pdata, cpc, cdata, samplequeue, wbuf, log, wcloses, shutdown,
                   created, popped, pushes, wopens>>

\* ConsumerWriteFail with the error caught and dropped: the loop goes on
\* with the next sample
ConsumerWriteFail_swallow ==
    /\ ~exited
    /\ cpc = "write"
    /\ failure' = StorageWriteError
    /\ cpc' = "pop"
    /\ UNCHANGED <<mpc, pdata, cdata, samplequeue, wbuf, log, wcloses, shutdown,
                   exited, created, popped, pushes, wopens>>

\* write, writer.write_sample(data) fails with StorageWriteError. write has
\* no handler, so the error leaves the thread function and the process is
\* terminated; the record is not written.
ConsumerWriteFail ==
    /\ ~exited
    /\ cpc = "write"
    /\ failure' = StorageWriteError
    /\ exited' = TRUE
    /\ UNCHANGED <<mpc, pdata, cpc, cdata, samplequeue, wbuf, log, wcloses, shutdown,
                   created, popped, pushes, wopens>>

\* a termination request (interrupt signal) is raised for the process
Signal ==
    /\ ~exited
    /\ ~shutdown
    /\ shutdown' = TRUE
    /\ UNCHANGED <<mpc, pdata, cpc, cdata, samplequeue, wbuf, log, wcloses, exited,
                   created, popped, pushes>>

\* Terminate by a main that leaves its loop on shutdown and returns without
\* joining the writer thread
Terminate_return ==
    /\ ~exited
    /\ shutdown
    /\ mpc' = "returned"
    /\ exited' = TRUE
    /\ UNCHANGED <<pdata, cpc, cdata, samplequeue, wbuf, log, wcloses, shutdown,
                   created, popped, pushes>>

\* main installs no handler and neither loop reads a shutdown flag: the
\* pending signal takes its default action and ends the process, both
\* threads wherever they are; no destructor runs.
Terminate ==
    /\ ~exited
    /\ shutdown
    /\ exited' = TRUE
    /\ UNCHANGED <<mpc, pdata, cpc, cdata, samplequeue, wbuf, log, wcloses, shutdown,
                   created, popped, pushes>>

\* ------------------------------------------------------------------------
\* The Samplequeue on its own: push, pop and close called in any order
\* ------------------------------------------------------------------------
\* push(sample) by a producer; created holds the samples offered
QPush ==
    /\ Len(created) < MaxSamples
    /\ ~pushBlocks(samplequeue)
    /\ \E u \in TickUsage :
          LET data == sample_usage(Len(created) + 1, u)
          IN  /\ samplequeue' = push(samplequeue, data)
              /\ created' = Append(created, data)
    /\ pushes' = IF pushResult(samplequeue) = "ok" THEN pushes + 1 ELSE pushes
    /\ qcall' = [qcall EXCEPT !.op = "push", !.ret = pushResult(samplequeue)]
    /\ UNCHANGED <<mpc, pdata, cpc, cdata, wbuf, log, wcloses, shutdown, exited, popped>>

\* pop() by a consumer; popped holds the samples returned
QPop ==
    /\ ~popBlocks(samplequeue)
    /\ IF popIsSentinel(samplequeue)
       THEN /\ qcall' = [qcall EXCEPT !.op = "pop", !.ret = "no more data"]
            /\ UNCHANGED <<samplequeue, cdata, popped>>
       ELSE /\ qcall' = [qcall EXCEPT !.op = "pop", !.ret = "sample"]
            /\ cdata' = popFront(samplequeue)
            /\ samplequeue' = popRest(samplequeue)
            /\ popped' = Append(popped, popFront(samplequeue))
    /\ UNCHANGED <<mpc, pdata, cpc, wbuf, log, wcloses, shutdown, exited, created, pushes>>

\* close() by the shutdown controller, possibly more than once
QClose ==
    /\ qcall.closes < MaxCloses
    /\ samplequeue' = close(samplequeue)
    /\ qcall' = [op |-> "close", ret |-> "ok", closes |-> qcall.closes + 1]
    /\ UNCHANGED <<mpc, pdata, cpc, cdata, wbuf, log, wcloses, shutdown, exited,
                   created, popped, pushes>>

\* ------------------------------------------------------------------------
\* Specifications
\* ------------------------------------------------------------------------
Init == SamplerInit /\ PipelineInit /\ qcall = NoCall

Producer == Spawn \/ ProducerSample \/ ProducerPush

Consumer == ConsumerOpen \/ ConsumerPop \/ ConsumerWrite \/ ConsumerFlush

Next ==
    \/ Spawn /\ UNCHANGED <<samplerVars, errVars, qcall>>
    \/ ProducerSample /\ UNCHANGED <<samplerVars, errVars, qcall>>
    \/ ProducerPush /\ UNCHANGED <<samplerVars, errVars, qcall>>
    \/ ConsumerOpen /\ UNCHANGED <<samplerVars, failure, qcall>>
    \/ ConsumerPop /\ UNCHANGED <<samplerVars, errVars, qcall>>
    \/ ConsumerWrite /\ UNCHANGED <<samplerVars, errVars, qcall>>
    \/ ConsumerFlush /\ UNCHANGED <<samplerVars, errVars, qcall>>
    \/ Signal /\ UNCHANGED <<samplerVars, errVars, qcall>>
    \/ Terminate /\ UNCHANGED <<samplerVars, errVars, qcall>>
    \/ ProducerSampleFail /\ UNCHANGED <<samplerVars, qcall>>
    \/ ConsumerWriteFail /\ UNCHANGED <<samplerVars, qcall>>

\* the collector process: main and the writer thread, any interleaving
Spec == Init /\ [][Next]_vars

\* the collector under a fair scheduler: a thread that can step eventually
\* steps, and a pending signal is eventually delivered
FairSpec ==
    /\ Init
    /\ [][Next]_vars
    /\ WF_vars(Producer /\ UNCHANGED <<samplerVars, errVars, qcall>>)
    /\ WF_vars(Consumer /\ UNCHANGED <<samplerVars, failure, qcall>>
                        /\ (wopens' = wopens \/ cpc = "open"))
    /\ WF_vars(Terminate /\ UNCHANGED <<samplerVars, errVars, qcall>>)

SamplerNext ==
    \/ ReadCpu0 /\ UNCHANGED <<pipelineVars, errVars, qcall>>
    \/ Sleep /\ UNCHANGED <<pipelineVars, errVars, qcall>>
    \/ ReadCpu1 /\ UNCHANGED <<pipelineVars, errVars, qcall>>
    \/ Compute /\ UNCHANGED <<pipelineVars, errVars, qcall>>
    \/ ReadFail /\ UNCHANGED <<pipelineVars, errVars, qcall>>

\* one call of sample_cpu_usage() on any two counter readings
SamplerSpec == Init /\ [][SamplerNext]_vars

QueueNext ==
    \/ QPush /\ UNCHANGED <<samplerVars, errVars>>
    \/ QPop /\ UNCHANGED <<samplerVars, errVars>>
    \/ QClose /\ UNCHANGED <<samplerVars, errVars>>

\* a Samplequeue used by any clients
QueueSpec == Init /\ [][QueueNext]_vars

\* ------------------------------------------------------------------------
\* Properties
\* ------------------------------------------------------------------------
IsPrefix(s, t) == Len(s) <= Len(t) /\ s = SubSeq(t, 1, Len(s))

\* every field of b is at least the same field of a
NonDecreasing(a, b) ==
    /\ WLeq(a.user_time, b.user_time)
    /\ WLeq(a.nice_time, b.nice_time)
    /\ WLeq(a.system_kernel_time, b.system_kernel_time)
    /\ WLeq(a.idle_time, b.idle_time)
    /\ WLeq(a.iowait_time, b.iowait_time)
    /\ WLeq(a.irq_time, b.irq_time)
    /\ WLeq(a.softirq_time, b.softirq_time)

\* the sum of the seven deltas as a natural number, not reduced modulo 2^64
DeltaSum(a, b) ==
    WAdd(WAdd(WAdd(WAdd(WAdd(WAdd(user_delta(a, b), nice_delta(a, b)),
        system_delta(a, b)), idle_delta(a, b)), iowait_delta(a, b)),
        irq_delta(a, b)), softirq_delta(a, b))

\* the sum of the seven deltas is below 2^64
SumFits(a, b) == DeltaSum(a, b)[5] = 0

AllDeltasZero(a, b) ==
    /\ user_delta(a, b) = Zero
    /\ nice_delta(a, b) = Zero
    /\ system_delta(a, b) = Zero
    /\ idle_delta(a, b) = Zero
    /\ iowait_delta(a, b) = Zero
    /\ irq_delta(a, b) = Zero
    /\ softirq_delta(a, b) = Zero

\* the pipeline's terminal state: Writer closed, queue empty and closed,
\* both tasks exited
Stopped ==
    /\ wcloses = 1
    /\ samplequeue.buf = <<>>
    /\ samplequeue.closed
    /\ mpc = "exited"
    /\ cpc = "exited"

\* samples created and not yet on disk or in the stream, oldest first
InFlight ==
    (IF cpc = "write" THEN <<cdata>> ELSE <<>>) \o samplequeue.buf
        \o (IF mpc = "push" THEN <<pdata>> ELSE <<>>)

\* C1: once shutdown has been signalled no push call completes: the number
\* of pushes does not change in any step taken after the signal.
C1_NoPushAfterShutdown == [][shutdown => pushes' = pushes]_vars

\* C2: the Writer is closed at most once and only with nothing left
\* unwritten, and when the process has exited after a shutdown the queue has
\* been drained, every pushed sample is on disk and the Writer has been
\* closed exactly once.
C2_DrainThenCloseOnce ==
    /\ wcloses <= 1
    /\ (wcloses = 1 => samplequeue.buf = <<>> /\ wbuf = <<>> /\ cpc # "write")
    /\ (exited /\ shutdown /\ failure = "none"
            => wcloses = 1 /\ samplequeue.buf = <<>> /\ Len(log) = pushes)

\* C3: every shutdown request is eventually followed by STOPPED, and the
\* process never exits on a shutdown request in a state other than STOPPED.
C3_ShutdownReachesStopped ==
    (shutdown ~> Stopped) /\ [](exited /\ shutdown /\ failure = "none" => Stopped)

\* C4: the records the consumer has written (flushed or still in the
\* stream) are a prefix of the samples the producer created, in order.
C4_FifoEndToEnd == IsPrefix(log \o wbuf, created)

C4_Witness ==
    /\ Len(log) >= 2
    /\ log[1].usage # log[2].usage
    /\ wbuf # <<>>
    /\ samplequeue.buf # <<>>

\* C5: when the pipeline has stopped after a shutdown request, every sample
\* that was pushed is in the log.
C5_NoLossAtStop ==
    exited /\ shutdown /\ failure = "none" => log = SubSeq(created, 1, pushes)

\* C6 as stated: for snapshots with non-decreasing fields and a non-zero sum
\* of deltas the returned utilisation lies in [0, 1].
C6_UtilizationInUnitInterval ==
    (/\ spc = "returned"
     /\ NonDecreasing(cpuatt, cpuatt1)
     /\ DeltaSum(cpuatt, cpuatt1) # Zero)
        => InUnitInterval(cpu_usage)

\* C6 amended: for snapshots with non-decreasing fields whose deltas have a
\* non-zero sum below 2^64 the returned utilisation lies in [0, 1].
C6_UtilizationInUnitIntervalNoOverflow ==
    (/\ spc = "returned"
     /\ NonDecreasing(cpuatt, cpuatt1)
     /\ DeltaSum(cpuatt, cpuatt1) # Zero
     /\ SumFits(cpuatt, cpuatt1))
        => InUnitInterval(cpu_usage)

C6_Witness ==
    /\ spc = "returned"
    /\ NonDecreasing(cpuatt, cpuatt1)
    /\ SumFits(cpuatt, cpuatt1)
    /\ WLess(Nat5(MaxCount), user_delta(cpuatt, cpuatt1))
    /\ WLess(Zero, cpu_usage.num)
    /\ WLess(cpu_usage.num, cpu_usage.den)

\* C7: when all seven deltas are zero the sampler returns 0.0 (and so has
\* not divided by zero).
C7_StaleCountersGiveZero ==
    (spc = "returned" /\ AllDeltasZero(cpuatt, cpuatt1)) => IsZeroDouble(cpu_usage)

\* C8: for snapshots with non-decreasing fields and a total above zero (and
\* below 2^64) the result is (total - (idle_delta + iowait_delta)) / total.
C8_IdleAndIowaitExcluded ==
    (/\ spc = "returned"
     /\ NonDecreasing(cpuatt, cpuatt1)
     /\ DeltaSum(cpuatt, cpuatt1) # Zero
     /\ SumFits(cpuatt, cpuatt1))
        => cpu_usage =
             DoubleDiv(ToDouble(U64Sub(total_delta(cpuatt, cpuatt1),
                                       U64Add(idle_delta(cpuatt, cpuatt1),
                                              iowait_delta(cpuatt, cpuatt1)))),
                       ToDouble(total_delta(cpuatt, cpuatt1)))

\* C9: every popped sample is flushed to disk before the next pop, so at
\* most one popped sample is not on disk, and a record on disk stays on disk
\* in every later step, the end of the process included.
C9_PerSampleDurability ==
    /\ [](/\ IsPrefix(log, popped)
          /\ Len(popped) - Len(log) <= 1
          /\ Len(wbuf) <= 1
          /\ (cpc = "pop" => log = popped))
    /\ [][IsPrefix(log, log')]_vars

C9_Witness ==
    /\ exited
    /\ Len(log) >= 1
    /\ wbuf # <<>>

\* C10: the queue never holds more than its capacity, a producer that finds
\* it at capacity cannot complete its push, and no sample is dropped: the
\* samples created are those written followed by those in flight.
C10_QueueBounded ==
    /\ Len(samplequeue.buf) <= QueueCapacity
    /\ (mpc = "push" /\ Len(samplequeue.buf) = QueueCapacity => ~ENABLED ProducerPush)
    /\ created = (log \o wbuf) \o InFlight

C10_Witness ==
    /\ ~exited
    /\ mpc = "push"
    /\ Len(samplequeue.buf) = QueueCapacity
    /\ cpc = "flush"

\* s is what is left of t after some elements were taken from its front
IsSuffix(s, t) ==
    Len(s) <= Len(t) /\ s = SubSeq(t, Len(t) - Len(s) + 1, Len(t))

\* C11: a push on a closed queue reports QueueClosedError and leaves the
\* queue as it was, and a closed queue stays closed with a buffer that only
\* loses elements from its front.
C11_NoPushAfterClose ==
    [][/\ samplequeue.closed =>
             samplequeue'.closed /\ IsSuffix(samplequeue'.buf, samplequeue.buf)
       /\ (samplequeue.closed /\ created' # created) =>
             qcall'.ret = "QueueClosedError" /\ samplequeue' = samplequeue]_vars

C11_Witness ==
    /\ qcall.op = "push"
    /\ qcall.ret = "QueueClosedError"
    /\ samplequeue.buf # <<>>
    /\ popped # <<>>

\* C12: a close() leaves the buffered samples as they were and the queue
\* closed, and a close() of a closed queue changes nothing in the queue.
C12_CloseIdempotent ==
    [][qcall'.closes # qcall.closes =>
          /\ samplequeue'.buf = samplequeue.buf
          /\ samplequeue'.closed
          /\ (samplequeue.closed => samplequeue' = samplequeue)]_vars

C12_Witness ==
    /\ qcall.op = "close"
    /\ qcall.closes = 2
    /\ Len(samplequeue.buf) >= 2

\* C13: a pop on an empty open queue cannot complete, a pop on a closed
\* queue can, "no more data" is returned only by a closed and empty queue,
\* and the samples popped are never more than the samples pushed.
C13_PopBlocksOrDrains ==
    /\ (samplequeue.buf = <<>> /\ ~samplequeue.closed => ~ENABLED QPop)
    /\ (samplequeue.closed => ENABLED QPop)
    /\ (qcall.op = "pop" /\ qcall.ret = "no more data" =>
            samplequeue.closed /\ samplequeue.buf = <<>>)
    /\ Len(popped) <= pushes
    /\ IsPrefix(popped, created)

C13_Witness ==
    /\ qcall.op = "pop"
    /\ qcall.ret = "no more data"
    /\ Len(popped) >= 2
    /\ Len(popped) = pushes

\* C14: once a write has failed with StorageWriteError the process has
\* ended, and nothing is popped or written in any later step.
C14_WriteFailureIsFatal ==
    /\ [](failure = StorageWriteError => exited)
    /\ [][failure = StorageWriteError => UNCHANGED <<log, wbuf, popped>>]_vars

C14_Witness ==
    /\ failure = StorageWriteError
    /\ Len(log) >= 1
    /\ samplequeue.buf # <<>>

\* C15: after a counter read has failed with CounterReadError the producer
\* is still running and is at the start of the next tick.
C15_ReadFailureSkipsTick ==
    failure = CounterReadError => ~exited /\ mpc = "sample"

\* C16: the log is opened at most once and before the first pop, every
\* step that opens, writes, flushes or closes it is a step of the consumer
\* alone, a step of main leaves the consumer's sample and the Writer as
\* they were, and a step of the consumer leaves main's sample as it was.
C16_LogOwnedByConsumer ==
    /\ [](/\ wopens <= 1
          /\ (popped # <<>> => wopens = 1)
          /\ (cpc \in {"pop", "write", "flush"} => wopens = 1))
    /\ [][(wbuf' # wbuf \/ log' # log \/ wopens' # wopens \/ wcloses' # wcloses)
             => cpc' # cpc /\ mpc' = mpc /\ pdata' = pdata]_vars
    /\ [][mpc' # mpc => UNCHANGED <<cdata, wbuf, log, wopens, wcloses>>]_vars
    /\ [][cpc' # cpc /\ mpc' = mpc => pdata' = pdata]_vars

C16_Witness ==
    /\ wopens = 1
    /\ Len(log) >= 1
    /\ pushes >= 2
    /\ mpc = "push"
    /\ cpc = "write"

\* the seven counters of a snapshot
Fields ==
    {"user_time", "nice_time", "system_kernel_time", "idle_time", "iowait_time",
     "irq_time", "softirq_time"}

TwoTo64 == <<0, 0, 0, 0, 1>>

\* the sum of the six deltas other than the idle delta, as a natural number
NonIdleSum(a, b) ==
    WAdd(WAdd(WAdd(WAdd(WAdd(user_delta(a, b), nice_delta(a, b)),
        system_delta(a, b)), iowait_delta(a, b)), irq_delta(a, b)),
        softirq_delta(a, b))

\* C17: for non-decreasing fields whose deltas sum to less than 2^64,
\* total_delta is the exact sum and at least idle_delta, and
\* total_delta - idle_delta is the exact sum of the other six deltas, which
\* is the numerator returned; and where a field of the second snapshot is
\* below that of the first, its delta is the difference plus 2^64.
C17_NoWrapWhenMonotone ==
    /\ (spc = "returned" /\ NonDecreasing(cpuatt, cpuatt1) /\ SumFits(cpuatt, cpuatt1))
          => /\ total_delta(cpuatt, cpuatt1) = DeltaSum(cpuatt, cpuatt1)
             /\ WLeq(idle_delta(cpuatt, cpuatt1), total_delta(cpuatt, cpuatt1))
             /\ U64Sub(total_delta(cpuatt, cpuatt1), idle_delta(cpuatt, cpuatt1))
                    = NonIdleSum(cpuatt, cpuatt1)
             /\ cpu_usage.num = ToDouble(NonIdleSum(cpuatt, cpuatt1))
    /\ spc = "returned"
          => \A f \in Fields :
                WLess(cpuatt1[f], cpuatt[f])
                   => WAdd(U64Sub(cpuatt1[f], cpuatt[f]), cpuatt[f])
                         = WAdd(cpuatt1[f], TwoTo64)

C17_Witness ==
    /\ spc = "returned"
    /\ WLess(cpuatt1.idle_time, cpuatt.idle_time)
    /\ NonDecreasing(cpuatt, [cpuatt1 EXCEPT !.idle_time = cpuatt.idle_time])
    /\ cpu_usage.kind = "fin"

\* C18: main is never past its loop: whenever the writer thread object
\* exists (it is never joined or detached), main is at the sampling or the
\* push of its loop and has not returned.
C18_NoReturnWhileJoinable ==
    /\ mpc # "returned"
    /\ (cpc # "unstarted" => mpc \in {"sample", "push"})

C18_Witness ==
    /\ exited
    /\ failure = "none"
    /\ cpc \in {"pop", "write", "flush"}
    /\ mpc \in {"sample", "push"}

====
